---- MODULE Spec2Model ----
(***************************************************************************)
(* Model of the FastAPI RAG chatbot backend: application startup           *)
(* (app/main.py lifespan), the PDF ingestion service                       *)
(* (app/services/pdf_service.py), the chat and upload routes               *)
(* (app/routes/chat.py), the vector store bootstrap                        *)
(* (app/core/vector_store.py) and the FCM token endpoints (app/main.py).   *)
(*                                                                         *)
(* Init is the state after the modules have been imported: configuration   *)
(* is loaded and vector_store_instance has been opened or bootstrapped.    *)
(* upload_pdf and handle_chat are plain `def` endpoints and run on         *)
(* threadpool workers, one step at a time; register_fcm_token and          *)
(* send_notification_to_all are `async def` coroutines that contain no     *)
(* await and therefore keep the event loop from entry to return.           *)
(***************************************************************************)
EXTENDS Integers, Sequences, FiniteSets, TLC

\* ---------------------------------------------------------------- bounds
MaxRequests == 3       \* HTTP requests accepted in one run
NumTokens == 2         \* distinct device tokens clients may register
NumWorkers == 2        \* threadpool workers serving upload-pdf

Tokens == 1..NumTokens
Workers == 1..NumWorkers

\* ------------------------------------------------------------ PDF corpus
\* What PyPDFLoader + RecursiveCharacterTextSplitter(1000, 100) yield for
\* each file of the corpus: "menu" and "carta" hold text, "blank" is a
\* valid PDF without extractable text, "corrupt" is not a readable PDF.
PDFS == {"menu", "carta", "blank", "corrupt"}

Placeholder == "Este es un documento inicial para la base de datos vectorial."

PdfContentType == "application/pdf"
ContentTypes == {PdfContentType, "text/plain"}

\* loader.load(): raises for a file that is not a valid PDF
LoadFails(pdf) == pdf = "corrupt"

\* text_splitter.split_documents(loader.load()): the chunk texts, in order
SplitDocuments(pdf) ==
    CASE pdf = "menu"  -> <<"menu-1", "menu-2">>
      [] pdf = "carta" -> <<"carta-1">>
      [] OTHER         -> <<>>

\* ------------------------------------------------------------------ state
VARIABLES
    phase,        \* position of lifespan(): "firebase","pdf","load","add","serving"
    credentialOk, \* app/serviceAccountKey.json loads and initialises Firebase
    firebaseReady,\* firebase_admin.initialize_app succeeded
    startPdf,     \* file found at app/data/menu.pdf, or "none"
    start,        \* the startup call of process_pdf_from_path
    index,        \* entries of vector_store_instance, in insertion order
    tmpFiles,     \* workers whose current call's temporary .pdf is on disk
    orphans,      \* temporary files left on disk by calls of earlier requests
    up,           \* per worker: the upload_pdf request it serves
    ingested,     \* per PDF: number of ingestions that completed
    chatResp,     \* the last /api/chat request: outcome of the chain and response
    fcm_tokens,   \* the in-memory token set
    loop,         \* coroutine holding the event loop: "idle" or "send"
    send,         \* the send_notification_to_all request in progress / last
    regResp,      \* response of the last /api/register-token request
    registered,   \* tokens for which a register-token request was served
    pushCalls,    \* calls made to messaging.send_multicast
    nreq          \* HTTP requests accepted so far

vars == <<phase, credentialOk, firebaseReady, startPdf, start, index,
          tmpFiles, orphans, up, ingested, chatResp, fcm_tokens, loop,
          send, regResp, registered, pushCalls, nreq>>

startVars == <<phase, credentialOk, firebaseReady, startPdf, start>>
notifVars == <<fcm_tokens, loop, send, regResp, registered, pushCalls>>

\* ---------------------------------------------------------------- helpers
Range(s) == {s[i] : i \in 1..Len(s)}

Count(s, x) == Cardinality({i \in 1..Len(s) : s[i] = x})

IsPrefix(s, t) == Len(s) <= Len(t) /\ SubSeq(t, 1, Len(s)) = s

RECURSIVE Filter(_, _)
Filter(s, S) ==
    IF s = <<>> THEN <<>>
    ELSE IF Head(s) \in S THEN <<Head(s)>> \o Filter(Tail(s), S)
         ELSE Filter(Tail(s), S)

\* list(fcm_tokens): the members of the set in the set's iteration order.
\* The order is fixed by the hashes of the process; tokens being
\* interchangeable, they are numbered in that order.
ListOf(S) == Filter([i \in 1..NumTokens |-> i], S)


\* -------------------------------------------------------------- responses
Response(st, d) == [status |-> st, json |-> TRUE, detail |-> d]

NoResponse == [status |-> 0, json |-> FALSE, detail |-> "none"]

\* FastAPI validates the declared parameters (ChatRequest, FcmTokenRequest,
\* NotificationRequest, File(...)) before the handler runs; no custom
\* exception handler is installed, so a missing field is answered 422.
RequestValidation(wellFormed) ==
    IF wellFormed THEN NoResponse ELSE Response(422, "field required")

\* vector_store_instance.add_documents(chunks): one batch call that either
\* appends every chunk under fresh ids or raises
AddDocumentsPartial(idx, chunks, outcome) ==
    IF outcome = "ok" \/ chunks = <<>>
    THEN idx \o chunks
    ELSE idx \o SubSeq(chunks, 1, Len(chunks) - 1)
AddDocumentsDedup(idx, chunks, outcome) ==
    IF outcome = "ok"
    THEN idx \o Filter(chunks, Range(chunks) \ Range(idx))
    ELSE idx
AddDocuments(idx, chunks, outcome) ==
    IF outcome = "ok" THEN idx \o chunks ELSE idx

AddOutcomes == {"ok", "IndexWriteError"}

\* ---------------------------------------------------------------- startup
NoCall == [attempted |-> FALSE, chunks |-> <<>>, err |-> "none", added |-> <<>>,
           done |-> FALSE]

\* lifespan(): its `except Exception` clauses print the error and startup
\* continues at the statement after the try block
RecoverAbort(next) == "crashed"
Recover(next) == next

\* lifespan() lines 44-49: credentials.Certificate + initialize_app in try/except
InitFirebase ==
    /\ phase = "firebase"
    /\ firebaseReady' = credentialOk
    /\ phase' = IF credentialOk THEN "pdf" ELSE Recover("pdf")
    /\ UNCHANGED <<credentialOk, startPdf, start, index, tmpFiles, orphans, up, ingested,
                   chatResp, fcm_tokens, loop, send, regResp,
                   registered, pushCalls, nreq>>

\* lifespan() lines 51-53, 59-60: os.path.exists(pdf_path)
CheckDefaultPdf ==
    /\ phase = "pdf"
    /\ IF startPdf # "none"
       THEN /\ phase' = "load"
            /\ start' = [start EXCEPT !.attempted = TRUE]
       ELSE /\ phase' = "serving"
            /\ UNCHANGED start
    /\ UNCHANGED <<credentialOk, firebaseReady, startPdf, index, tmpFiles, orphans, up,
                   ingested, chatResp, fcm_tokens, loop, send,
                   regResp, registered, pushCalls, nreq>>

\* process_pdf_from_path lines 81-89: load and split; the exception is
\* re-raised and caught by lifespan()
StartLoad ==
    /\ phase = "load"
    /\ IF LoadFails(startPdf)
       THEN /\ start' = [start EXCEPT !.err = "ExtractionError", !.done = TRUE]
            /\ phase' = Recover("serving")
       ELSE /\ start' = [start EXCEPT !.chunks = SplitDocuments(startPdf)]
            /\ phase' = "add"
    /\ UNCHANGED <<credentialOk, firebaseReady, startPdf, index, tmpFiles, orphans, up,
                   ingested, chatResp, fcm_tokens, loop, send,
                   regResp, registered, pushCalls, nreq>>

\* process_pdf_from_path lines 94-100: add_documents
StartAdd ==
    /\ phase = "add"
    /\ \E outcome \in AddOutcomes :
         /\ index' = AddDocuments(index, start.chunks, outcome)
         /\ IF outcome = "ok"
            THEN /\ start' = [start EXCEPT !.added = start.chunks, !.done = TRUE]
                 /\ ingested' = [ingested EXCEPT ![startPdf] = @ + 1]
                 /\ phase' = "serving"
            ELSE /\ start' = [start EXCEPT !.err = outcome, !.done = TRUE]
                 /\ UNCHANGED ingested
                 /\ phase' = Recover("serving")
    /\ UNCHANGED <<credentialOk, firebaseReady, startPdf, tmpFiles, orphans, up,
                   chatResp, fcm_tokens, loop, send, regResp,
                   registered, pushCalls, nreq>>

Startup == InitFirebase \/ CheckDefaultPdf \/ StartLoad \/ StartAdd


\* ------------------------------------------------------------ upload-pdf
Idle == [pc |-> "idle", kind |-> "none", pdf |-> "none",
         path |-> FALSE, chunks |-> <<>>, err |-> "none", added |-> <<>>,
         tries |-> 0, abandoned |-> FALSE, resp |-> NoResponse]

\* Requests a client can post: the file field missing, or a file part
\* with its content-type.  The bytes of the part are looked at only when
\* the service reads them (Extract).
UploadInputs ==
    {[wellFormed |-> FALSE, ct |-> "none"]}
    \cup {[wellFormed |-> TRUE, ct |-> c] : c \in ContentTypes}

\* upload_pdf line 70: file.content_type != 'application/pdf'
ValidContentTypeAny(ct) == TRUE
ValidContentType(ct) == ct = PdfContentType

\* upload_pdf lines 76-84: the service's exception becomes HTTPException(500)
\* whose detail carries str(e); otherwise the success message
UploadResponseSwallow(err) == Response(200, "ok")
UploadResponse(err) ==
    IF err = "none" THEN Response(200, "ok") ELSE Response(500, err)

\* process_and_update_vector_store lines 60-64: the finally clause removes
\* the file only when the local tmp_file_path is bound
RemoveTemp(files, f, pathBound) ==
    IF pathBound /\ f \in files THEN files \ {f} ELSE files

\* The threadpool hands a request to a worker that is not serving one;
\* workers being interchangeable, the lowest-numbered one is taken
FreeWorker(u) ==
    /\ up[u].pc \in {"idle", "done"}
    /\ \A w \in Workers : w < u => up[w].pc \notin {"idle", "done"}

\* POST /api/upload-pdf arrives at a free worker (a file left behind by the
\* worker's previous call stays on disk as an orphan): request validation,
\* upload_pdf lines 70-74, and for a PDF part the entry into
\* process_and_update_vector_store up to NamedTemporaryFile(delete=False)
\* (line 33), which creates the file
UploadRequest(u) ==
    /\ phase = "serving"
    /\ FreeWorker(u)
    /\ nreq < MaxRequests
    /\ nreq' = nreq + 1
    /\ orphans' = IF u \in tmpFiles THEN orphans + 1 ELSE orphans
    /\ \E in \in UploadInputs :
         LET r == Idle
         IN IF ~in.wellFormed
            THEN /\ up' = [up EXCEPT ![u] = [r EXCEPT !.pc = "done",
                               !.kind = "malformed",
                               !.resp = RequestValidation(in.wellFormed)]]
                 /\ tmpFiles' = tmpFiles \ {u}
            ELSE IF ~ValidContentType(in.ct)
            THEN /\ up' = [up EXCEPT ![u] = [r EXCEPT !.pc = "done",
                               !.kind = "notpdf",
                               !.resp = Response(400, "Formato de archivo no valido")]]
                 /\ tmpFiles' = tmpFiles \ {u}
            ELSE /\ up' = [up EXCEPT ![u] = [r EXCEPT !.pc = "extract",
                               !.kind = IF in.ct = PdfContentType
                                        THEN "pdf" ELSE "notpdf"]]
                 /\ tmpFiles' = tmpFiles \cup {u}
    /\ UNCHANGED <<startVars, index, ingested, chatResp, notifVars>>

\* lines 34-48: tmp_file.write(file.file.read()) and the binding of
\* tmp_file_path, PyPDFLoader(tmp_file_path).load(), split_documents.
\* An exception in read() or write() leaves the with block (which closes
\* the file) before tmp_file_path is bound.  Any exception runs the except
\* and finally clauses (lines 56-64) and upload_pdf answers (lines 79-84).
Extract(u) ==
    /\ up[u].pc = "extract"
    /\ \/ /\ up' = [up EXCEPT ![u].err = "ReadError", ![u].pc = "done",
                              ![u].resp = UploadResponse("ReadError")]
          /\ tmpFiles' = RemoveTemp(tmpFiles, u, FALSE)
       \/ \E pdf \in PDFS :
            IF LoadFails(pdf)
            THEN /\ up' = [up EXCEPT ![u].pdf = pdf, ![u].path = TRUE,
                                     ![u].err = "ExtractionError",
                                     ![u].pc = "done",
                                     ![u].resp = UploadResponse("ExtractionError")]
                 /\ tmpFiles' = RemoveTemp(tmpFiles, u, TRUE)
            ELSE /\ up' = [up EXCEPT ![u].pdf = pdf, ![u].path = TRUE,
                                     ![u].chunks = SplitDocuments(pdf),
                                     ![u].pc = "add"]
                 /\ UNCHANGED tmpFiles
    /\ UNCHANGED <<startVars, index, orphans, ingested, chatResp, notifVars, nreq>>

\* line 53: vector_store_instance.add_documents(chunks), then the finally
\* clause (lines 60-64) and the response of upload_pdf (lines 77-84)
AddChunks(u) ==
    /\ up[u].pc = "add"
    /\ \E outcome \in AddOutcomes :
         /\ index' = AddDocuments(index, up[u].chunks, outcome)
         /\ IF outcome = "ok"
            THEN /\ up' = [up EXCEPT ![u].added = up[u].chunks,
                                     ![u].tries = @ + 1, ![u].pc = "done",
                                     ![u].resp = UploadResponse("none")]
                 /\ ingested' = [ingested EXCEPT ![up[u].pdf] = @ + 1]
            ELSE /\ up' = [up EXCEPT ![u].err = outcome,
                                     ![u].tries = @ + 1, ![u].pc = "done",
                                     ![u].resp = UploadResponse(outcome)]
                 /\ UNCHANGED ingested
    /\ tmpFiles' = RemoveTemp(tmpFiles, u, up[u].path)
    /\ UNCHANGED <<startVars, orphans, chatResp, notifVars, nreq>>

\* The client gives up on an upload whose add_documents call is in flight
\* (timeout, disconnect).  upload_pdf is a plain `def` running on a worker
\* thread and neither it nor process_and_update_vector_store has a
\* cancellation point (lines 31-64): the call goes on unchanged and only
\* its response is lost.
Abandon(u) ==
    /\ up[u].pc = "add"
    /\ ~up[u].abandoned
    /\ up' = [up EXCEPT ![u].abandoned = TRUE]
    /\ UNCHANGED <<startVars, index, tmpFiles, orphans, ingested, chatResp,
                   notifVars, nreq>>

\* ------------------------------------------------------------------ chat
\* handle_chat lines 44-53: rag_chain.invoke retrieves the k=3 nearest
\* entries and calls the LLM; any exception becomes HTTPException(500)
NoChat == [wellFormed |-> TRUE, err |-> "none", tries |-> 0, resp |-> NoResponse]

ChatOutcomes == {"ok", "RetrievalError", "CompletionError"}

ChatResponse(outcome) ==
    IF outcome = "ok" THEN Response(200, "answer") ELSE Response(500, outcome)

Chat ==
    /\ phase = "serving"
    /\ nreq < MaxRequests
    /\ nreq' = nreq + 1
    /\ \E wf \in BOOLEAN, outcome \in ChatOutcomes :
         chatResp' = IF wf
                     THEN [wellFormed |-> TRUE, err |-> outcome, tries |-> 1,
                           resp |-> ChatResponse(outcome)]
                     ELSE [wellFormed |-> FALSE, err |-> "none", tries |-> 0,
                           resp |-> RequestValidation(wf)]
    /\ UNCHANGED <<startVars, index, tmpFiles, orphans, up, ingested, notifVars>>


\* ---------------------------------------------------------- notifications
NoSend == [pc |-> "idle", wellFormed |-> TRUE, atSnapshot |-> {}, tokens |-> <<>>, responses |-> <<>>,
           failed |-> <<>>, success |-> 0, failure |-> 0, tries |-> 0,
           resp |-> NoResponse]

NoRegister == [token |-> 0, present |-> FALSE, status |-> 0, message |-> "none"]

\* register_fcm_token line 129: the same message whether or not the token
\* was already registered
RegisterReply(present) ==
    [status |-> 200, message |-> "Token FCM registrado con exito"]

\* register_fcm_token lines 125-126: add the token unless already present
RegisterTokenReplace(S, t) == {t}
RegisterToken(S, t) == IF t \notin S THEN S \cup {t} ELSE S

\* send_notification_to_all line 136: `if not fcm_tokens`
NoTokensNever(S) == FALSE
NoTokens(S) == S = {}

\* line 144: tokens=list(fcm_tokens)
MessageTokensFirst(S) == SubSeq(ListOf(S), 1, 1)
MessageTokens(S) == ListOf(S)

\* lines 132-157: the coroutine has no await, so once the message is built
\* the event loop stays with it until it returns or raises
LoopAfterSnapshotYield == "idle"
LoopAfterSnapshot == "send"

\* BatchResponse.success_count over the per-token SendResponse objects
SuccessCount(responses) ==
    Cardinality({i \in 1..Len(responses) : responses[i]})

\* lines 150-156: failed_tokens.append(list(fcm_tokens)[i]) for each
\* response that is not a success, the set being read again each time
RECURSIVE FailedTokens(_, _, _)
FailedTokens(responses, S, i) ==
    IF i > Len(responses) THEN <<>>
    ELSE IF ~responses[i]
         THEN <<ListOf(S)[i]>> \o FailedTokens(responses, S, i + 1)
         ELSE FailedTokens(responses, S, i + 1)

\* POST /api/register-token (lines 120-129), run on the event loop
Register ==
    /\ phase = "serving"
    /\ loop = "idle"
    /\ nreq < MaxRequests
    /\ nreq' = nreq + 1
    /\ \E wf \in BOOLEAN, t \in Tokens :
         IF wf
         THEN /\ fcm_tokens' = RegisterToken(fcm_tokens, t)
              /\ regResp' = [token |-> t, present |-> t \in fcm_tokens,
                             status |-> RegisterReply(t \in fcm_tokens).status,
                             message |-> RegisterReply(t \in fcm_tokens).message]
              /\ registered' = registered \cup {t}
         ELSE /\ regResp' = [token |-> 0, present |-> FALSE, status |-> 422,
                             message |-> "field required"]
              /\ UNCHANGED <<fcm_tokens, registered>>
    /\ UNCHANGED <<startVars, index, tmpFiles, orphans, up, ingested, chatResp,
                   loop, send, pushCalls>>

\* POST /api/send-notification, lines 136-146: the 404 guard and the
\* construction of the MulticastMessage
SendRequest ==
    /\ phase = "serving"
    /\ loop = "idle"
    /\ send.pc \in {"idle", "done"}
    /\ nreq < MaxRequests
    /\ nreq' = nreq + 1
    /\ \E wf \in BOOLEAN :
         IF ~wf
         THEN /\ send' = [NoSend EXCEPT !.pc = "done", !.wellFormed = FALSE,
                                        !.resp = RequestValidation(wf)]
              /\ UNCHANGED loop
         ELSE IF NoTokens(fcm_tokens)
         THEN /\ send' = [NoSend EXCEPT !.pc = "done",
                             !.resp = Response(404, "No hay tokens FCM registrados.")]
              /\ UNCHANGED loop
         ELSE /\ send' = [NoSend EXCEPT !.pc = "built", !.atSnapshot = fcm_tokens,
                                        !.tokens = MessageTokens(fcm_tokens)]
              /\ loop' = LoopAfterSnapshot
    /\ UNCHANGED <<startVars, index, tmpFiles, orphans, up, ingested, chatResp,
                   fcm_tokens, regResp, registered, pushCalls>>

\* lines 148-149 and 158-160: messaging.send_multicast(message) returns a
\* BatchResponse with one SendResponse per token, or raises (always when
\* Firebase was not initialised); the exception becomes HTTPException(500)
SendMulticast ==
    /\ send.pc = "built"
    /\ pushCalls' = pushCalls + 1
    /\ \/ /\ send' = [send EXCEPT !.pc = "done", !.tries = @ + 1,
                                  !.resp = Response(500, "NotificationError")]
          /\ loop' = "idle"
       \/ /\ firebaseReady
          /\ \E rs \in [1..Len(send.tokens) -> BOOLEAN] :
               send' = [send EXCEPT !.pc = "sent", !.tries = @ + 1,
                                    !.responses = rs,
                                    !.success = SuccessCount(rs),
                                    !.failure = Len(rs) - SuccessCount(rs)]
          /\ UNCHANGED loop
    /\ UNCHANGED <<startVars, index, tmpFiles, orphans, up, ingested, chatResp,
                   fcm_tokens, regResp, registered, nreq>>

\* lines 150-157: list the tokens whose response failed, then answer with
\* the success and failure counts
SendReport ==
    /\ send.pc = "sent"
    /\ send' = [send EXCEPT !.pc = "done",
                   !.failed = IF send.failure > 0
                              THEN FailedTokens(send.responses, fcm_tokens, 1)
                              ELSE <<>>,
                   !.resp = Response(200, "Notificaciones enviadas")]
    /\ loop' = "idle"
    /\ UNCHANGED <<startVars, index, tmpFiles, orphans, up, ingested, chatResp,
                   fcm_tokens, regResp, registered, pushCalls, nreq>>

\* ------------------------------------------------------- vector store
\* get_vector_store(): load the persisted collection when the directory
\* exists and is not empty, otherwise create it with the initial document
GetVectorStore(persisted) ==
    IF persisted # <<>> THEN persisted ELSE <<Placeholder>>

PersistedStores == {<<>>, <<Placeholder, "carta-1">>}

\* ------------------------------------------------------- specification
Init ==
    /\ phase = "firebase"
    /\ credentialOk \in BOOLEAN
    /\ firebaseReady = FALSE
    /\ startPdf \in {"none", "menu", "blank", "corrupt"}
    /\ start = NoCall
    /\ \E persisted \in PersistedStores : index = GetVectorStore(persisted)
    /\ tmpFiles = {}
    /\ orphans = 0
    /\ up = [u \in Workers |-> Idle]
    /\ ingested = [p \in PDFS |-> 0]
    /\ chatResp = NoChat
    /\ fcm_tokens = {}
    /\ loop = "idle"
    /\ send = NoSend
    /\ regResp = NoRegister
    /\ registered = {}
    /\ pushCalls = 0
    /\ nreq = 0

Next ==
    \/ InitFirebase
    \/ CheckDefaultPdf
    \/ StartLoad
    \/ StartAdd
    \/ \E u \in Workers : UploadRequest(u)
    \/ \E u \in Workers : Extract(u)
    \/ \E u \in Workers : AddChunks(u)
    \/ Chat
    \/ Register
    \/ SendRequest
    \/ SendMulticast
    \/ SendReport

Spec == Init /\ [][Next]_vars

\* The ingestion side of the application on its own: startup and the
\* upload workers, with clients that may give up on an upload in flight.
\* The chat and notification handlers leave index, up and tmpFiles as
\* they are, so they add nothing to the interleavings of ingestions.
NextIngest ==
    \/ InitFirebase
    \/ CheckDefaultPdf
    \/ StartLoad
    \/ StartAdd
    \/ \E u \in Workers : UploadRequest(u)
    \/ \E u \in Workers : Extract(u)
    \/ \E u \in Workers : AddChunks(u)
    \/ \E u \in Workers : Abandon(u)

SpecIngest == Init /\ [][NextIngest]_vars

\* lifespan() is straight-line code: each of its steps is taken once enabled
FairSpec == Spec /\ WF_vars(Startup)

TypeOK ==
    /\ phase \in {"firebase", "pdf", "load", "add", "serving"}
    /\ tmpFiles \subseteq Workers
    /\ orphans \in 0..MaxRequests
    /\ fcm_tokens \subseteq Tokens
    /\ loop \in {"idle", "send"}
    /\ nreq \in 0..MaxRequests
    /\ pushCalls \in 0..MaxRequests


\* ------------------------------------------------------------ properties
Done(u) == up[u].pc = "done"

Failed(u) == Done(u) /\ up[u].err # "none"

\* C1: once a call of process_and_update_vector_store has returned or
\* raised, the temporary file it created no longer exists, whichever step
\* failed (read, write, load, split, add_documents) and on success.
C1_TempFileDeleted ==
    /\ \A u \in Workers : Done(u) => u \notin tmpFiles
    /\ orphans = 0

C3_AppendOnly ==
    /\ [][IsPrefix(index, index')]_vars
    /\ [](index[1] = Placeholder)
    /\ [](\A p \in PDFS : \A c \in Range(SplitDocuments(p)) :
            Count(index, c) >= ingested[p])

C3_Witness ==
    /\ ingested["menu"] = 2
    /\ Count(index, "menu-1") >= 2
    /\ \E u \in Workers : Failed(u)

\* C4: an upload whose content-type is not application/pdf is answered 400
\* without entering the ingestion pipeline: no temporary file, no chunk,
\* no call of add_documents, and the step that serves it leaves the index
\* and the temporary files as they were.
C4_NonPdfRejected ==
    /\ [](\A u \in Workers : up[u].kind = "notpdf" =>
            /\ Done(u)
            /\ up[u].resp.status = 400
            /\ u \notin tmpFiles
            /\ up[u].added = <<>>
            /\ up[u].tries = 0)
    /\ [][\A u \in Workers :
            up'[u].kind = "notpdf" /\ up'[u] # up[u]
              => index' = index /\ tmpFiles' \subseteq tmpFiles]_vars

C4_Witness ==
    \E u \in Workers :
        /\ Done(u)
        /\ up[u].kind = "notpdf"
        /\ up[u].resp.status = 400
        /\ Len(index) > 1

\* C5: after any sequence of register-token requests the token set holds
\* exactly the distinct tokens registered, each listed once, and a request
\* for a token already present is answered with the success message.
C5_RegisterIdempotent ==
    /\ fcm_tokens = registered
    /\ Len(ListOf(fcm_tokens)) = Cardinality(registered)
    /\ \A t \in registered : Count(ListOf(fcm_tokens), t) = 1
    /\ regResp.token \in Tokens =>
         /\ regResp.status = 200
         /\ regResp.message = "Token FCM registrado con exito"
         /\ regResp.token \in fcm_tokens

C5_Witness ==
    /\ regResp.present
    /\ regResp.status = 200
    /\ Cardinality(fcm_tokens) = 2

\* C6: a send-notification request that finds the token set empty is
\* answered 404 without calling the push service, and the push service is
\* only ever called with at least one registered token.
C6_EmptySetNoPush ==
    /\ send.pc = "done" /\ send.wellFormed /\ send.atSnapshot = {}
         => send.resp.status = 404 /\ send.tries = 0
    /\ send.tries > 0 => send.atSnapshot # {} /\ send.tokens # <<>>
    /\ pushCalls > 0 => fcm_tokens # {}

C6_Witness ==
    /\ send.resp.status = 404
    /\ pushCalls = 0
    /\ nreq > 0

\* The parts of C7 that do not concern request validation: a failure
\* inside a request's pipeline is answered 500 with a JSON body carrying
\* the error, a request without failure is not, and no external call is
\* attempted more than once per request.
FailuresSurfaced ==
    /\ \A u \in Workers :
         /\ Failed(u) => up[u].resp = Response(500, up[u].err)
         /\ Done(u) /\ up[u].resp.status = 500 => up[u].err # "none"
         /\ up[u].tries <= 1
    /\ chatResp.wellFormed /\ chatResp.err \notin {"none", "ok"}
         => chatResp.resp = Response(500, chatResp.err)
    /\ chatResp.tries <= 1
    /\ send.pc = "done" /\ send.tries > 0 /\ send.responses = <<>>
         => send.resp = Response(500, "NotificationError")
    /\ send.tries <= 1

Malformed(u) == Done(u) /\ up[u].kind = "malformed"

C9_SnapshotStable ==
    /\ send.pc \in {"built", "sent"} =>
         /\ fcm_tokens = send.atSnapshot
         /\ ListOf(fcm_tokens) = send.tokens
    /\ send.pc = "done" /\ send.responses # <<>> =>
         /\ Len(send.failed) = send.failure
         /\ \A i \in 1..Len(send.tokens) :
              ~send.responses[i] => Count(send.failed, send.tokens[i]) = 1
         /\ \A t \in Range(send.failed) :
              \E i \in 1..Len(send.tokens) :
                  send.tokens[i] = t /\ ~send.responses[i]

C9_Witness ==
    /\ send.pc = "done"
    /\ send.failed # <<>>
    /\ Len(send.tokens) = 2
    /\ send.success = 1

StartIngested == start.done /\ start.err = "none"

RECURSIVE IsBatches(_)
IsBatches(s) ==
    \/ s = <<>>
    \/ \E p \in PDFS :
         LET b == SplitDocuments(p)
         IN /\ b # <<>>
            /\ IsPrefix(b, s)
            /\ IsBatches(SubSeq(s, Len(b) + 1, Len(s)))

Succeeded(u) == Done(u) /\ up[u].kind = "pdf" /\ up[u].err = "none"

\* C11: whatever the interleaving of the upload workers, the index holds
\* every chunk of every ingestion that has completed, once per completed
\* ingestion (no lost write, no deduplication); every change of the index
\* appends the whole batch of one PDF; and an ingestion that failed or was
\* abandoned has contributed either nothing or its whole batch, so the
\* index never holds part of a batch.
C11_ConcurrentIngestions ==
    /\ [](\A c \in UNION {Range(SplitDocuments(p)) : p \in PDFS} :
            Count(index, c) >=
              Cardinality({u \in Workers : Succeeded(u) /\ c \in Range(up[u].chunks)}))
    /\ [](\A u \in Workers :
            /\ Succeeded(u) => up[u].added = up[u].chunks
            /\ Failed(u) => up[u].added = <<>>
            /\ up[u].abandoned => up[u].added \in {<<>>, up[u].chunks})
    /\ [](IsBatches(Tail(index)))
    /\ [][index' # index =>
            \E p \in PDFS : index' = index \o SplitDocuments(p)]_vars

\* Two workers were serving uploads of different PDFs at the same time (the
\* second worker is used only while the first is busy, and these are the
\* only two requests), both succeeded, and one had been abandoned.
C11_Witness ==
    /\ nreq = 2
    /\ Succeeded(1) /\ Succeeded(2)
    /\ {up[1].pdf, up[2].pdf} = {"menu", "carta"}
    /\ up[1].abandoned
    /\ Count(index, "menu-2") >= 1 /\ Count(index, "carta-1") >= 1

====
